---- MODULE Spec2Model ----
(***************************************************************************)
(* The Finny V1 Slack gateway: the webhook endpoint (gateway/app.py), the  *)
(* idempotency tracker, mention stripping and the background processing    *)
(* of an event with its failure / escalation / retry path                  *)
(* (gateway/event_handler.py), the rate limiter (rate_limiter.py) and the  *)
(* audit log (audit.py).                                                   *)
(*                                                                         *)
(* The gateway runs on one asyncio event loop: code between two awaits is  *)
(* one atomic step, and every await is a point where other deliveries and  *)
(* background tasks may run.  Time is the wall clock in whole seconds.     *)
(***************************************************************************)
EXTENDS Integers, Sequences, FiniteSets, TLC

\* ---------------------------------------------------------------- bounds
\* Webhook deliveries the upstream sender makes in one run.
MaxDeliveries == 2
\* Processing attempts of one event that the model follows (the code sets no bound).
MaxAttempts == 3
\* Direct calls of a component that a unit-test style run makes.
MaxCalls == 4
\* Tokens of a text handed to strip_bot_mention.
MaxLen == 4
\* The largest max_retries a client is configured with.
MaxRetries == 2
\* Calls of get_payment_status that a run compares.
MaxLookups == 2

\* ------------------------------------------------------ program constants
\* _DEDUP_WINDOW, seconds.
DEDUP_WINDOW == 60
\* Replay protection of the signature check, seconds.
REPLAY_WINDOW == 300
\* Delay of the scheduled retry, seconds.
RETRY_DELAY == 900
\* RateLimiter defaults.
max_requests == 10
window_seconds == 60

Abs(x) == IF x < 0 THEN -x ELSE x

\* ----------------------------------------------------------------- data
Deliveries == 1..MaxDeliveries
Users == {"U1", "U2"}

\* A text is a sequence of tokens: "M" is a mention token <@U002>, " " is a
\* run of whitespace, "w" is a run of other characters.
NoText == << >>

\* The event object of a payload; present = FALSE is a missing or empty one.
NoEvent ==
  [present |-> FALSE, type |-> "", channel_type |-> "", bot_id |-> "",
   subtype |-> "", user |-> "", text |-> NoText, channel |-> "", ts |-> "",
   thread_ts |-> ""]

Mention(user, text, ts, thread_ts) ==
  [present |-> TRUE, type |-> "app_mention", channel_type |-> "channel",
   bot_id |-> "", subtype |-> "", user |-> user, text |-> text,
   channel |-> "C1", ts |-> ts, thread_ts |-> thread_ts]

DirectMessage(user, text, bot_id, subtype) ==
  [present |-> TRUE, type |-> "message", channel_type |-> "im",
   bot_id |-> bot_id, subtype |-> subtype, user |-> user, text |-> text,
   channel |-> "D1", ts |-> "t1", thread_ts |-> ""]

Callback(event_id, event) ==
  [type |-> "event_callback", challenge |-> "", event_id |-> event_id,
   event |-> event]

Handshake(challenge) ==
  [type |-> "url_verification", challenge |-> challenge, event_id |-> "",
   event |-> NoEvent]

\* A body that request.json() cannot parse (not JSON, or empty).
NotJson ==
  [type |-> "<not json>", challenge |-> "", event_id |-> "", event |-> NoEvent]

\* The payloads the upstream sender delivers.
Payloads ==
  { Handshake("xyz"),
    NotJson,
    Callback("Ev1", Mention("U1", <<"M", " ", "w">>, "t1", "")),
    Callback("Ev2", Mention("U2", <<"M", " ", "w">>, "t2", "t1")),
    Callback("Ev1", Mention("U1", <<"M">>, "t1", "")),
    Callback("Ev2", DirectMessage("U2", <<"w">>, "", "")),
    Callback("Ev2", DirectMessage("U2", <<"w">>, "B1", "")),
    Callback("Ev1", NoEvent),
    Callback("", Mention("U1", <<"M", " ", "w">>, "t1", "")) }

\* The payloads that also arrive badly signed.
AttackPayloads ==
  { Handshake("xyz"),
    Callback("Ev1", Mention("U1", <<"M", " ", "w">>, "t1", "")) }

\* The payloads followed through background processing.
CorePayloads ==
  { Callback("Ev1", Mention("U1", <<"M", " ", "w">>, "t1", "")),
    Callback("Ev1", Mention("U1", <<"M">>, "t1", "")),
    Callback("Ev2", DirectMessage("U2", <<"w">>, "", "")) }

\* The X-Slack-Request-Timestamp header as float() reads it: a number, the
\* text "nan", or text that float() rejects (the empty header included).
NumTs(n) == [kind |-> "num", val |-> n]
NanTs == [kind |-> "nan", val |-> 0]
BadTs == [kind |-> "bad", val |-> 0]

\* The X-Slack-Signature header.  A digest is kept as the key and the
\* message it was computed from: two digests are equal exactly when both
\* are (HMAC-SHA256 taken as collision free).
NoSignature == [scheme |-> "", key |-> "", ts |-> BadTs, body |-> Handshake("")]
Sign(key, ts, body) == [scheme |-> "v0=", key |-> key, ts |-> ts, body |-> body]

NoRequest == [payload |-> Handshake(""), timestamp |-> BadTs, signature |-> NoSignature]

\* ------------------------------------------------------------- variables
VARIABLES
  now,                  \* time.time()
  slack_signing_secret, \* settings.slack_signing_secret ("" = none configured)
  seen_events,          \* _seen_events: event_id -> first-seen time (-1 = absent)
  rate_limiter,         \* _rate_limiter: its limit, its window and user -> admitted timestamps
  audit,                \* the audit_log table: correlation id -> row
  sessions,             \* the session store of the agent runner
  posts,                \* messages delivered to the chat system
  dlv,                  \* the webhook deliveries and their responses
  task,                 \* the background task of each delivery
  calls                 \* direct calls made on one component, with their results

vars ==
  <<now, slack_signing_secret, seen_events, rate_limiter, audit, sessions,
    posts, dlv, task, calls>>

EventIds == {"", "Ev1", "Ev2"}

\* --------------------------------------------------- signature verifier
\* abs(time.time() - float(timestamp)) > 300; every comparison with NaN is false.
Stale(timestamp, t) ==
  IF timestamp.kind = "num" THEN Abs(t - timestamp.val) > REPLAY_WINDOW ELSE FALSE

verify_slack_signature(signing_secret, timestamp, body, signature, t) ==
  IF signing_secret = "" \/ signature = NoSignature THEN FALSE
  ELSE IF timestamp.kind = "bad" THEN FALSE
  ELSE IF Stale(timestamp, t) THEN FALSE
  ELSE Sign(signing_secret, timestamp, body) = signature

\* --------------------------------------------------- idempotency tracker
\* Mutant: an entry expires as soon as it is a full window old.
Expired_early(seen, t) == {k \in DOMAIN seen : seen[k] >= 0 /\ t - seen[k] >= DEDUP_WINDOW}

Expired(seen, t) == {k \in DOMAIN seen : seen[k] >= 0 /\ t - seen[k] > DEDUP_WINDOW}

\* Mutant: nothing is ever evicted.
Pruned_never(seen, t) == seen

Pruned(seen, t) == [k \in DOMAIN seen |-> IF k \in Expired(seen, t) THEN -1 ELSE seen[k]]

\* Mutant: a first sight is not recorded.
is_duplicate_forgets(seen, event_id, t) ==
  LET kept == Pruned(seen, t) IN [ret |-> kept[event_id] >= 0, seen |-> kept]

\* Mutant: a duplicate refreshes the recorded time.
is_duplicate_refreshes(seen, event_id, t) ==
  LET kept == Pruned(seen, t) IN
  [ret |-> kept[event_id] >= 0, seen |-> [kept EXCEPT ![event_id] = t]]

is_duplicate(seen, event_id, t) ==
  LET kept == Pruned(seen, t) IN
  IF kept[event_id] >= 0
    THEN [ret |-> TRUE, seen |-> kept]
    ELSE [ret |-> FALSE, seen |-> [kept EXCEPT ![event_id] = t]]

\* ---------------------------------------------------------- rate limiter
\* _requests is a defaultdict(list): a user has a key once it was read or
\* written, and the domain of requests is the set of keys.
RateLimiter(max, window) ==
  [max |-> max, window |-> window, requests |-> [u \in {} |-> << >>]]

\* self._requests[user_id], read: the list, the empty one for a new key.
Requests(rl, user_id) ==
  IF user_id \in DOMAIN rl.requests THEN rl.requests[user_id] ELSE << >>

\* self._requests[user_id] = timestamps
SetRequests(rl, user_id, timestamps) ==
  [rl EXCEPT !.requests =
     [u \in DOMAIN rl.requests \cup {user_id} |->
        IF u = user_id THEN timestamps ELSE rl.requests[u]]]

Recent(timestamps, cutoff) == SelectSeq(timestamps, LAMBDA ts : ts > cutoff)

\* Mutant: the limit is tested with > instead of >=.
is_allowed_one_more(rl, user_id, t) ==
  LET recent == Recent(Requests(rl, user_id), t - rl.window) IN
  IF Len(recent) > rl.max
    THEN [ret |-> FALSE, rl |-> SetRequests(rl, user_id, recent)]
    ELSE [ret |-> TRUE, rl |-> SetRequests(rl, user_id, Append(recent, t))]

\* Mutant: a rejected attempt is recorded too.
is_allowed_records_rejected(rl, user_id, t) ==
  LET recent == Recent(Requests(rl, user_id), t - rl.window) IN
  [ret |-> Len(recent) < rl.max, rl |-> SetRequests(rl, user_id, Append(recent, t))]

\* Mutant: one list is shared by all users.
is_allowed_shared(rl, user_id, t) ==
  LET recent == Recent(Requests(rl, user_id), t - rl.window)
      kept == IF Len(recent) >= rl.max THEN recent ELSE Append(recent, t)
  IN [ret |-> Len(recent) < rl.max,
      rl |-> [rl EXCEPT !.requests = [u \in Users |-> kept]]]

is_allowed(rl, user_id, t) ==
  LET recent == Recent(Requests(rl, user_id), t - rl.window) IN
  IF Len(recent) >= rl.max
    THEN [ret |-> FALSE, rl |-> SetRequests(rl, user_id, recent)]
    ELSE [ret |-> TRUE, rl |-> SetRequests(rl, user_id, Append(recent, t))]

\* The read of self._requests[user_id] gives a new user its key; the list
\* itself is left as it is.
remaining(rl, user_id, t) ==
  LET recent == Recent(Requests(rl, user_id), t - rl.window) IN
  [ret |-> IF rl.max - Len(recent) > 0 THEN rl.max - Len(recent) ELSE 0,
   rl |-> SetRequests(rl, user_id, Requests(rl, user_id))]

\* ------------------------------------------------------------- audit log
\* A correlation id is a uuid4: one never seen before.  The id minted by
\* attempt n of the task of delivery d is kept as <<d, n>>.
CorrelationIds == Deliveries \X (1..MaxAttempts)

new_correlation_id(d, attempt) == <<d, attempt>>

NoRow ==
  [present |-> FALSE, user_id |-> "", query_text |-> NoText,
   response_status |-> "", error_message |-> "", updates |-> 0]

NoAudit == [c \in CorrelationIds |-> NoRow]

\* INSERT OR REPLACE of a row whose response_status is '' (pending).
log_query(table, correlation_id, user_id, query_text) ==
  [table EXCEPT ![correlation_id] =
     [present |-> TRUE, user_id |-> user_id, query_text |-> query_text,
      response_status |-> "", error_message |-> "", updates |-> 0]]

\* UPDATE ... WHERE correlation_id = ?; updates counts the updates of a row.
log_response(table, correlation_id, response_status, error_message) ==
  IF table[correlation_id].present
    THEN [table EXCEPT ![correlation_id].response_status = response_status,
                       ![correlation_id].error_message = error_message,
                       ![correlation_id].updates = @ + 1]
    ELSE table

\* ------------------------------------------------------ mention stripping
RECURSIVE DropSpace(_)
DropSpace(s) == IF s # << >> /\ Head(s) = " " THEN DropSpace(Tail(s)) ELSE s

\* re.sub(r"<@[A-Z0-9]+>\s*", "", text): every mention token goes, with the
\* whitespace that follows it.
RECURSIVE RemoveMentions(_)
RemoveMentions(s) ==
  IF s = << >> THEN << >>
  ELSE IF Head(s) = "M" THEN RemoveMentions(DropSpace(Tail(s)))
  ELSE <<Head(s)>> \o RemoveMentions(Tail(s))

RECURSIVE Reverse(_)
Reverse(s) == IF s = << >> THEN << >> ELSE Append(Reverse(Tail(s)), Head(s))

\* str.strip()
Strip(s) == Reverse(DropSpace(Reverse(DropSpace(s))))

strip_bot_mention(text) == Strip(RemoveMentions(text))

\* ------------------------------------------------------- webhook endpoint
\* The response of the framework to an exception that leaves the endpoint.
ServerErrorBody == [kind |-> "server_error", challenge |-> ""]
OkBody == [kind |-> "ok", challenge |-> ""]
ErrorBody == [kind |-> "error", challenge |-> ""]
ChallengeBody(payload) == [kind |-> "challenge", challenge |-> payload.challenge]
NoBody == [kind |-> "", challenge |-> ""]

SignatureRejected(secret, req, t) ==
  /\ secret # ""
  /\ ~verify_slack_signature(secret, req.timestamp, req.payload, req.signature, t)

\* Mutant: the bot_id / subtype test of a direct message is left out.
Actionable_bots_too(event) ==
  \/ event.type = "app_mention"
  \/ event.type = "message" /\ event.channel_type = "im"

Actionable(event) ==
  \/ event.type = "app_mention"
  \/ /\ event.type = "message"
     /\ event.channel_type = "im"
     /\ ~(event.bot_id # "" \/ event.subtype # "")

\* Mutant: the dedup check runs before the signature check.
slack_events_dedup_first(secret, req, seen, t) ==
  LET payload == req.payload
      dup == is_duplicate(seen, payload.event_id, t)
  IN
  IF payload = NotJson
    THEN [status |-> 500, body |-> ServerErrorBody, seen |-> seen,
          dup |-> "none", dispatch |-> FALSE]
  ELSE IF payload.type = "url_verification"
    THEN [status |-> 200, body |-> ChallengeBody(payload), seen |-> seen,
          dup |-> "none", dispatch |-> FALSE]
  ELSE IF ~payload.event.present
    THEN [status |-> 200, body |-> OkBody, seen |-> seen,
          dup |-> "none", dispatch |-> FALSE]
  ELSE IF dup.ret
    THEN [status |-> 200, body |-> OkBody, seen |-> dup.seen,
          dup |-> "true", dispatch |-> FALSE]
  ELSE IF SignatureRejected(secret, req, t)
    THEN [status |-> 403, body |-> ErrorBody, seen |-> dup.seen,
          dup |-> "false", dispatch |-> FALSE]
  ELSE [status |-> 200, body |-> OkBody, seen |-> dup.seen,
        dup |-> "false", dispatch |-> Actionable(payload.event)]

\* Mutant: the signature check runs before the handshake test.
slack_events_auth_first(secret, req, seen, t) ==
  LET payload == req.payload
      dup == is_duplicate(seen, payload.event_id, t)
  IN
  IF payload = NotJson
    THEN [status |-> 500, body |-> ServerErrorBody, seen |-> seen,
          dup |-> "none", dispatch |-> FALSE]
  ELSE IF SignatureRejected(secret, req, t)
    THEN [status |-> 403, body |-> ErrorBody, seen |-> seen,
          dup |-> "none", dispatch |-> FALSE]
  ELSE IF payload.type = "url_verification"
    THEN [status |-> 200, body |-> ChallengeBody(payload), seen |-> seen,
          dup |-> "none", dispatch |-> FALSE]
  ELSE IF ~payload.event.present
    THEN [status |-> 200, body |-> OkBody, seen |-> seen,
          dup |-> "none", dispatch |-> FALSE]
  ELSE IF dup.ret
    THEN [status |-> 200, body |-> OkBody, seen |-> dup.seen,
          dup |-> "true", dispatch |-> FALSE]
  ELSE [status |-> 200, body |-> OkBody, seen |-> dup.seen,
        dup |-> "false", dispatch |-> Actionable(payload.event)]

\* What slack_events does with a request once its body is read: the
\* response, the dedup map it leaves, the outcome of is_duplicate when it
\* was called, and whether handle_event was dispatched.  request.json()
\* raises on a body that is not JSON; nothing catches it and the framework
\* answers 500.
slack_events(secret, req, seen, t) ==
  LET payload == req.payload
      dup == is_duplicate(seen, payload.event_id, t)
  IN
  IF payload = NotJson
    THEN [status |-> 500, body |-> ServerErrorBody, seen |-> seen,
          dup |-> "none", dispatch |-> FALSE]
  ELSE IF payload.type = "url_verification"
    THEN [status |-> 200, body |-> ChallengeBody(payload), seen |-> seen,
          dup |-> "none", dispatch |-> FALSE]
  ELSE IF SignatureRejected(secret, req, t)
    THEN [status |-> 403, body |-> ErrorBody, seen |-> seen,
          dup |-> "none", dispatch |-> FALSE]
  ELSE IF ~payload.event.present
    THEN [status |-> 200, body |-> OkBody, seen |-> seen,
          dup |-> "none", dispatch |-> FALSE]
  ELSE IF dup.ret
    THEN [status |-> 200, body |-> OkBody, seen |-> dup.seen,
          dup |-> "true", dispatch |-> FALSE]
  ELSE [status |-> 200, body |-> OkBody, seen |-> dup.seen,
        dup |-> "false", dispatch |-> Actionable(payload.event)]

NoDelivery ==
  [pc |-> "idle", req |-> NoRequest, t |-> 0, status |-> 0, body |-> NoBody,
   dup |-> "none", dispatch |-> FALSE]

\* A session of the store: its id, the user it is bound to, and the task
\* attempt whose create made it (obj tells two sessions of one id apart).
NoSession == [id |-> <<>>, user_id |-> "", obj |-> <<0, 0>>]

NoTask ==
  [pc |-> "none", attempt |-> 0, cid |-> <<0, 0>>, exc |-> "", text |-> "",
   escalated |-> "", timer |-> -1, session |-> NoSession, limited |-> FALSE]

Request(payload, timestamp, signature) ==
  [payload |-> payload, timestamp |-> timestamp, signature |-> signature]

\* The requests the upstream sender makes at time t, signed with the shared secret.
SenderRequests(P, t) == {Request(p, NumTs(t), Sign("s1", NumTs(t), p)) : p \in P}

\* Badly signed requests at time t: a replay of one the sender signed long
\* ago, one signed with another key, and an unsigned one.
BadRequests(P, t) ==
  {Request(p, NumTs(t - 301), Sign("s1", NumTs(t - 301), p)) : p \in P}
  \cup {Request(p, NumTs(t), Sign("other", NumTs(t), p)) : p \in P}
  \cup {Request(p, NumTs(t), NoSignature) : p \in P}

\* A delivery reaches the endpoint; slack_events awaits its body.
Arrive(d, R) ==
  /\ dlv[d].pc = "idle"
  /\ \A e \in Deliveries : e < d => dlv[e].pc # "idle"
  /\ \E req \in R :
       dlv' = [dlv EXCEPT ![d] = [NoDelivery EXCEPT !.pc = "recv", !.req = req]]
  /\ UNCHANGED <<now, slack_signing_secret, seen_events, rate_limiter, audit,
                 sessions, posts, task, calls>>

\* Mutant: handle_event is awaited, the response waits for it.
Process_awaits(d) ==
  /\ dlv[d].pc = "recv"
  /\ task[d].pc = "none"
  /\ LET r == slack_events(slack_signing_secret, dlv[d].req, seen_events, now) IN
       /\ seen_events' = r.seen
       /\ IF r.dispatch
            THEN /\ task' = [task EXCEPT ![d] = [NoTask EXCEPT !.pc = "start", !.attempt = 1]]
                 /\ UNCHANGED dlv
            ELSE /\ dlv' = [dlv EXCEPT ![d] = [pc |-> "done", req |-> dlv[d].req, t |-> now,
                                               status |-> r.status, body |-> r.body,
                                               dup |-> r.dup, dispatch |-> r.dispatch]]
                 /\ UNCHANGED task
  /\ UNCHANGED <<now, slack_signing_secret, rate_limiter, audit, sessions, posts, calls>>

\* slack_events runs from the parsed payload to its return without an await.
Process(d) ==
  /\ dlv[d].pc = "recv"
  /\ LET r == slack_events(slack_signing_secret, dlv[d].req, seen_events, now) IN
       /\ dlv' = [dlv EXCEPT ![d] = [pc |-> "done", req |-> dlv[d].req, t |-> now,
                                     status |-> r.status, body |-> r.body,
                                     dup |-> r.dup, dispatch |-> r.dispatch]]
       /\ seen_events' = r.seen
       /\ task' = IF r.dispatch
                    THEN [task EXCEPT ![d] = [NoTask EXCEPT !.pc = "start", !.attempt = 1]]
                    ELSE task
  /\ UNCHANGED <<now, slack_signing_secret, rate_limiter, audit, sessions, posts, calls>>

\* Time passes; a request body is read within the second it arrives in.
Tick(T) ==
  /\ \A d \in Deliveries : dlv[d].pc # "recv"
  /\ \E t \in T : t > now /\ now' = t
  /\ UNCHANGED <<slack_signing_secret, seen_events, rate_limiter, audit, sessions,
                 posts, dlv, task, calls>>

\* --------------------------------------------------- background processing
Event(d) == dlv[d].req.payload.event

\* thread_ts = event.get("thread_ts") or event.get("ts", "")
ThreadTs(event) == IF event.thread_ts # "" THEN event.thread_ts ELSE event.ts

\* session_id = f"slack-{channel}-{thread_ts}"
SessionId(event) == <<"slack", event.channel, ThreadTs(event)>>

\* The session store of the agent runner: a session is found by its id, and
\* create makes a new session bound to the user and the id and stores it
\* under that id.
get_session(store, user_id, session_id) ==
  IF \E s \in store : s.id = session_id
    THEN CHOOSE s \in store : s.id = session_id
    ELSE NoSession

create_session(store, user_id, session_id, obj) ==
  LET session == [id |-> session_id, user_id |-> user_id, obj |-> obj] IN
  [ret |-> session,
   store |-> {s \in store : s.id # session_id} \cup {session}]

FallbackText == "fallback"
ApologyText == "apology"
CooldownText == "cooldown"
slack_billing_ops_channel == "billing-ops"

\* A message the chat system accepted, with the attempt that posted it.
Message(channel, thread_ts, kind, detail, d) ==
  [channel |-> channel, thread_ts |-> thread_ts, kind |-> kind,
   detail |-> detail, d |-> d, attempt |-> task[d].attempt]

\* The text of an escalation names the error, the channel and the event's ts.
EscalationText(error_msg, original_channel, original_ts) ==
  <<error_msg, original_channel, original_ts>>

TaskUnchanged == UNCHANGED <<now, slack_signing_secret, seen_events, dlv, calls>>

\* Mutant: the audit row is written before the rate limit is checked.
HandleStart_audit_first(d) ==
  /\ task[d].pc = "start"
  /\ LET event == Event(d)
         query == strip_bot_mention(event.text)
         adm == is_allowed(rate_limiter, event.user, now)
         cid == new_correlation_id(d, task[d].attempt)
     IN
     \/ /\ query = NoText
        /\ task' = [task EXCEPT ![d].pc = "done"]
        /\ UNCHANGED <<rate_limiter, audit>>
     \/ /\ query # NoText
        /\ rate_limiter' = adm.rl
        /\ audit' = log_query(audit, cid, event.user, query)
        /\ task' = IF adm.ret
                     THEN [task EXCEPT ![d].pc = "get_session", ![d].cid = cid]
                     ELSE [task EXCEPT ![d].pc = "post_cooldown", ![d].limited = TRUE]
  /\ UNCHANGED <<sessions, posts>>
  /\ TaskUnchanged

\* Mutant: the rate limit is checked before the query is tested for empty.
HandleStart_limit_first(d) ==
  /\ task[d].pc = "start"
  /\ LET event == Event(d)
         query == strip_bot_mention(event.text)
         adm == is_allowed(rate_limiter, event.user, now)
         cid == new_correlation_id(d, task[d].attempt)
     IN
     /\ rate_limiter' = adm.rl
     /\ \/ /\ ~adm.ret
           /\ task' = [task EXCEPT ![d].pc = "post_cooldown", ![d].limited = TRUE]
           /\ UNCHANGED audit
        \/ /\ adm.ret
           /\ query = NoText
           /\ task' = [task EXCEPT ![d].pc = "done"]
           /\ UNCHANGED audit
        \/ /\ adm.ret
           /\ query # NoText
           /\ audit' = log_query(audit, cid, event.user, query)
           /\ task' = [task EXCEPT ![d].pc = "get_session", ![d].cid = cid]
  /\ UNCHANGED <<sessions, posts>>
  /\ TaskUnchanged

\* handle_event from its entry to its first await: the query, the rate
\* limit, the correlation id and the pending audit row.
HandleStart(d) ==
  /\ task[d].pc = "start"
  /\ LET event == Event(d)
         query == strip_bot_mention(event.text)
         adm == is_allowed(rate_limiter, event.user, now)
         cid == new_correlation_id(d, task[d].attempt)
     IN
     \/ /\ query = NoText
        /\ task' = [task EXCEPT ![d].pc = "done"]
        /\ UNCHANGED <<rate_limiter, audit>>
     \/ /\ query # NoText
        /\ ~adm.ret
        /\ rate_limiter' = adm.rl
        /\ task' = [task EXCEPT ![d].pc = "post_cooldown", ![d].limited = TRUE]
        /\ UNCHANGED audit
     \/ /\ query # NoText
        /\ adm.ret
        /\ rate_limiter' = adm.rl
        /\ audit' = log_query(audit, cid, event.user, query)
        /\ task' = [task EXCEPT ![d].pc = "get_session", ![d].cid = cid]
  /\ UNCHANGED <<sessions, posts>>
  /\ TaskUnchanged

\* The cooldown notice is posted outside the try block: a failed post
\* leaves handle_event as an exception.
PostCooldown(d) ==
  /\ task[d].pc = "post_cooldown"
  /\ \/ /\ posts' = posts \cup {Message(Event(d).channel, ThreadTs(Event(d)),
                                         "cooldown", CooldownText, d)}
        /\ task' = [task EXCEPT ![d].pc = "done"]
     \/ /\ task' = [task EXCEPT ![d].pc = "raised"]
        /\ UNCHANGED posts
  /\ UNCHANGED <<rate_limiter, audit, sessions>>
  /\ TaskUnchanged

\* await session_service.get_session(...)
GetSession(d) ==
  /\ task[d].pc = "get_session"
  /\ LET session == get_session(sessions, Event(d).user, SessionId(Event(d))) IN
       task' = [task EXCEPT ![d].session = session,
                            ![d].pc = IF session = NoSession THEN "create_session"
                                      ELSE "run"]
  /\ UNCHANGED <<rate_limiter, audit, sessions, posts>>
  /\ TaskUnchanged

\* await session_service.create_session(...)
CreateSession(d) ==
  /\ task[d].pc = "create_session"
  /\ LET r == create_session(sessions, Event(d).user, SessionId(Event(d)),
                             <<d, task[d].attempt>>)
     IN /\ sessions' = r.store
        /\ task' = [task EXCEPT ![d].session = r.ret, ![d].pc = "run"]
  /\ UNCHANGED <<rate_limiter, audit, posts>>
  /\ TaskUnchanged

\* The agent runner yields its fragments, none at all, or throws.
RunAgent(d) ==
  /\ task[d].pc = "run"
  /\ \/ \E response_text \in {"answer", ""} :
          task' = [task EXCEPT ![d].pc = "post_reply",
                               ![d].text = IF response_text = "" THEN FallbackText
                                           ELSE response_text]
     \/ task' = [task EXCEPT ![d].pc = "post_apology", ![d].exc = "agent_error"]
  /\ UNCHANGED <<rate_limiter, audit, sessions, posts>>
  /\ TaskUnchanged

\* Mutant: the audit row is set to ok before the reply is posted.
PostReply_logs_first(d) ==
  /\ task[d].pc = "post_reply"
  /\ audit' = log_response(audit, task[d].cid, "ok", "")
  /\ \/ /\ posts' = posts \cup {Message(Event(d).channel, ThreadTs(Event(d)),
                                         "reply", task[d].text, d)}
        /\ task' = [task EXCEPT ![d].pc = "done"]
     \/ /\ task' = [task EXCEPT ![d].pc = "post_apology", ![d].exc = "chat_error"]
        /\ UNCHANGED posts
  /\ UNCHANGED <<rate_limiter, sessions>>
  /\ TaskUnchanged

\* The reply is posted, then the audit row is set to ok; a failed post is
\* caught by the except block.
PostReply(d) ==
  /\ task[d].pc = "post_reply"
  /\ \/ /\ posts' = posts \cup {Message(Event(d).channel, ThreadTs(Event(d)),
                                         "reply", task[d].text, d)}
        /\ audit' = log_response(audit, task[d].cid, "ok", "")
        /\ task' = [task EXCEPT ![d].pc = "done"]
     \/ /\ task' = [task EXCEPT ![d].pc = "post_apology", ![d].exc = "chat_error"]
        /\ UNCHANGED <<posts, audit>>
  /\ UNCHANGED <<rate_limiter, sessions>>
  /\ TaskUnchanged

\* Mutant: the apology quotes the exception.
PostApology_leaks(d) ==
  /\ task[d].pc = "post_apology"
  /\ \/ /\ posts' = posts \cup {Message(Event(d).channel, ThreadTs(Event(d)),
                                         "apology", task[d].exc, d)}
        /\ audit' = log_response(audit, task[d].cid, "error", task[d].exc)
        /\ task' = [task EXCEPT ![d].pc = "escalate"]
     \/ /\ task' = [task EXCEPT ![d].pc = "raised"]
        /\ UNCHANGED <<posts, audit>>
  /\ UNCHANGED <<rate_limiter, sessions>>
  /\ TaskUnchanged

\* The except block: the apology is posted, then the audit row is set to
\* error.  The post is not guarded: when it fails the exception leaves
\* handle_event.
PostApology(d) ==
  /\ task[d].pc = "post_apology"
  /\ \/ /\ posts' = posts \cup {Message(Event(d).channel, ThreadTs(Event(d)),
                                         "apology", ApologyText, d)}
        /\ audit' = log_response(audit, task[d].cid, "error", task[d].exc)
        /\ task' = [task EXCEPT ![d].pc = "escalate"]
     \/ /\ task' = [task EXCEPT ![d].pc = "raised"]
        /\ UNCHANGED <<posts, audit>>
  /\ UNCHANGED <<rate_limiter, sessions>>
  /\ TaskUnchanged

\* Mutant: a failed escalation post leaves escalate_to_ops as an exception.
Escalate_raises(d) ==
  /\ task[d].pc = "escalate"
  /\ \/ /\ posts' = posts \cup {Message(slack_billing_ops_channel, "", "escalation",
                            EscalationText(task[d].exc, Event(d).channel, Event(d).ts), d)}
        /\ task' = [task EXCEPT ![d].pc = "done", ![d].escalated = "sent",
                                 ![d].timer = now + RETRY_DELAY]
     \/ /\ task' = [task EXCEPT ![d].pc = "raised", ![d].escalated = "failed"]
        /\ UNCHANGED posts
  /\ UNCHANGED <<rate_limiter, audit, sessions>>
  /\ TaskUnchanged

\* escalate_to_ops swallows a failed post; then the retry is scheduled with
\* call_later and handle_event returns.
Escalate(d) ==
  /\ task[d].pc = "escalate"
  /\ \E delivered \in BOOLEAN :
       /\ posts' = IF delivered
                     THEN posts \cup {Message(slack_billing_ops_channel, "", "escalation",
                            EscalationText(task[d].exc, Event(d).channel, Event(d).ts), d)}
                     ELSE posts
       /\ task' = [task EXCEPT ![d].pc = "done",
                                ![d].escalated = IF delivered THEN "sent" ELSE "failed",
                                ![d].timer = now + RETRY_DELAY]
  /\ UNCHANGED <<rate_limiter, audit, sessions>>
  /\ TaskUnchanged

\* The timer fires: _retry_event calls handle_event with the same event.
RetryEvent(d) ==
  /\ task[d].timer >= 0
  /\ now >= task[d].timer
  /\ task[d].attempt < MaxAttempts
  /\ task' = [task EXCEPT ![d] = [NoTask EXCEPT !.pc = "start",
                                                !.attempt = task[d].attempt + 1]]
  /\ UNCHANGED <<rate_limiter, audit, sessions, posts>>
  /\ TaskUnchanged

Step(d) ==
  \/ HandleStart(d)
  \/ PostCooldown(d)
  \/ GetSession(d)
  \/ CreateSession(d)
  \/ RunAgent(d)
  \/ PostReply(d)
  \/ PostApology(d)
  \/ Escalate(d)
  \/ RetryEvent(d)

InitState(secrets, limiter) ==
  /\ now = 0
  /\ slack_signing_secret \in secrets
  /\ seen_events = [k \in EventIds |-> -1]
  /\ rate_limiter = limiter
  /\ audit = NoAudit
  /\ sessions = {}
  /\ posts = {}
  /\ dlv = [d \in Deliveries |-> NoDelivery]
  /\ task = [d \in Deliveries |-> NoTask]
  /\ calls = << >>

\* ------------------------------------------- the endpoint on its own
InitGateway == InitState({"", "s1"}, RateLimiter(max_requests, window_seconds))

NextGateway ==
  \/ \E d \in Deliveries :
       Arrive(d, SenderRequests(Payloads, now) \cup BadRequests(AttackPayloads, now))
  \/ \E d \in Deliveries : Process(d)
  \/ Tick({60, 61, 400})

SpecGateway == InitGateway /\ [][NextGateway]_vars

\* ------------------------------------------------ the whole gateway
\* U2 has used up the limit at time 0.
BusyLimiter ==
  SetRequests(RateLimiter(max_requests, window_seconds), "U2",
              [i \in 1..max_requests |-> 0])

Init == InitState({"s1"}, BusyLimiter)

Next ==
  \/ \E d \in Deliveries : Arrive(d, SenderRequests(CorePayloads, now))
  \/ \E d \in Deliveries : Process(d)
  \/ \E d \in Deliveries : Step(d)
  \/ Tick({900})

Spec == Init /\ [][Next]_vars

\* ------------------------------- one event followed through its retries
NextEvent ==
  \/ Arrive(1, SenderRequests(CorePayloads, now))
  \/ Process(1)
  \/ Step(1)
  \/ Tick({60, 900, 1800, 2700})

SpecEvent == Init /\ [][NextEvent]_vars

\* ------------------------------------- is_duplicate called on its own
Call(fn, arg, ret) == [fn |-> fn, arg |-> arg, t |-> now, ret |-> ret]

CallIsDuplicate ==
  /\ Len(calls) < MaxCalls
  /\ \E event_id \in {"Ev1", "Ev2"} :
       LET r == is_duplicate(seen_events, event_id, now) IN
         /\ seen_events' = r.seen
         /\ calls' = Append(calls, Call("is_duplicate", event_id, r.ret))
  /\ UNCHANGED <<now, slack_signing_secret, rate_limiter, audit, sessions, posts,
                 dlv, task>>

NextDedup ==
  \/ CallIsDuplicate
  \/ Tick({1, 59, 60, 61, 62, 120, 121, 122})

SpecDedup == InitGateway /\ [][NextDedup]_vars

\* --------------------------- _verify_slack_signature called on its own
Secrets == {"", "s1", "s2"}
Bodies == {Handshake("xyz"), Callback("Ev1", NoEvent)}
Timestamps(t) ==
  {NumTs(t), NumTs(t - 300), NumTs(t - 301), NumTs(t + 300), NumTs(t + 301),
   NanTs, BadTs}
Signatures(t) ==
  {NoSignature}
  \cup {Sign(k, ts, b) : k \in Secrets, ts \in Timestamps(t), b \in Bodies}

CallVerify ==
  /\ calls = << >>
  /\ \E secret \in Secrets, timestamp \in Timestamps(now), body \in Bodies,
        signature \in Signatures(now) :
       calls' = << Call("verify",
                        [secret |-> secret, timestamp |-> timestamp,
                         body |-> body, signature |-> signature],
                        verify_slack_signature(secret, timestamp, body, signature, now)) >>
  /\ UNCHANGED <<now, slack_signing_secret, seen_events, rate_limiter, audit,
                 sessions, posts, dlv, task>>

NextVerify ==
  \/ CallVerify
  \/ Tick({1000})

SpecVerify == InitGateway /\ [][NextVerify]_vars

\* ------------------------------------- events of the threads of a channel
\* A message that opens a thread, a reply to it by another user, and a
\* message by that user that opens a thread of its own.
SessionPayloads ==
  { Callback("Ev1", Mention("U1", <<"M", " ", "w">>, "t1", "")),
    Callback("Ev2", Mention("U2", <<"M", " ", "w">>, "t2", "t1")),
    Callback("Ev2", Mention("U2", <<"M", " ", "w">>, "t2", "")) }

InitSession == InitState({"s1"}, RateLimiter(max_requests, window_seconds))

\* No time passes: no user reaches the limit and no retry timer fires.
NextSession ==
  \/ \E d \in Deliveries : Arrive(d, SenderRequests(SessionPayloads, now))
  \/ \E d \in Deliveries : Process(d)
  \/ \E d \in Deliveries :
       \/ HandleStart(d)
       \/ GetSession(d)
       \/ CreateSession(d)
       \/ RunAgent(d)
       \/ PostReply(d)
       \/ PostApology(d)
       \/ Escalate(d)

SpecSession == InitSession /\ [][NextSession]_vars

\* ------------------------------------------ events of every shape
\* Events of the shapes the endpoint tells apart: mentions (in a channel,
\* in a direct conversation, by a bot), direct messages (plain, by a bot,
\* with a subtype), a channel message and an event of another type.
ClassifyPayloads ==
  { Callback("Ev1", Mention("U1", <<"M", " ", "w">>, "t1", "")),
    Callback("Ev1", [Mention("U1", <<"M", " ", "w">>, "t1", "")
                       EXCEPT !.channel_type = "im", !.channel = "D1"]),
    Callback("Ev1", [Mention("U1", <<"M", " ", "w">>, "t1", "") EXCEPT !.bot_id = "B1"]),
    Callback("Ev2", DirectMessage("U2", <<"w">>, "", "")),
    Callback("Ev2", DirectMessage("U2", <<"w">>, "B1", "")),
    Callback("Ev2", DirectMessage("U2", <<"w">>, "", "message_changed")),
    Callback("Ev2", [DirectMessage("U2", <<"w">>, "", "")
                       EXCEPT !.channel_type = "channel", !.channel = "C1"]),
    Callback("Ev2", [DirectMessage("U2", <<"w">>, "", "") EXCEPT !.type = "reaction_added"]) }

\* No time passes: no user reaches the limit and no retry timer fires.
NextClassify ==
  \/ \E d \in Deliveries : Arrive(d, SenderRequests(ClassifyPayloads, now))
  \/ \E d \in Deliveries : Process(d)
  \/ \E d \in Deliveries :
       \/ HandleStart(d)
       \/ GetSession(d)
       \/ CreateSession(d)
       \/ RunAgent(d)
       \/ PostReply(d)
       \/ PostApology(d)
       \/ Escalate(d)

SpecClassify == InitSession /\ [][NextClassify]_vars

\* ------------------------------- strip_bot_mention called on its own
RECURSIVE TextsOfLen(_)
TextsOfLen(n) ==
  IF n = 0 THEN {<< >>}
  ELSE {Append(text, c) : text \in TextsOfLen(n - 1), c \in {"M", " ", "w"}}

\* The texts of at most MaxLen tokens.
Texts == UNION {TextsOfLen(n) : n \in 0..MaxLen}

CallStrip ==
  /\ calls = << >>
  /\ \E text \in Texts :
       calls' = << Call("strip_bot_mention", text, strip_bot_mention(text)) >>
  /\ UNCHANGED <<now, slack_signing_secret, seen_events, rate_limiter, audit,
                 sessions, posts, dlv, task>>

NextStrip == CallStrip

SpecStrip == InitGateway /\ [][NextStrip]_vars

\* ------------------------------------ the rate limiter called on its own
\* RateLimiter(max_requests=2, window_seconds=60), as the tests build it.
TestLimiter == RateLimiter(2, 60)

InitLimiter == InitState({"s1"}, TestLimiter)

CallIsAllowed ==
  /\ Len(calls) < MaxCalls
  /\ \E user_id \in Users :
       LET r == is_allowed(rate_limiter, user_id, now) IN
         /\ rate_limiter' = r.rl
         /\ calls' = Append(calls, Call("is_allowed", user_id, r.ret))
  /\ UNCHANGED <<now, slack_signing_secret, seen_events, audit, sessions, posts,
                 dlv, task>>

CallRemaining ==
  /\ Len(calls) < MaxCalls
  /\ \E user_id \in Users :
       LET r == remaining(rate_limiter, user_id, now) IN
         /\ rate_limiter' = r.rl
         /\ calls' = Append(calls, Call("remaining", user_id, r.ret))
  /\ UNCHANGED <<now, slack_signing_secret, seen_events, audit, sessions, posts,
                 dlv, task>>

NextLimiter ==
  \/ CallIsAllowed
  \/ CallRemaining
  \/ Tick({1, 59, 60, 61})

SpecLimiter == InitLimiter /\ [][NextLimiter]_vars

\* ------------------------------------------- the OpenClaw gateway client
\* What one client.post of call_agent meets: an exception of httpx or a
\* response with a status code.
TimeoutException == [exc |-> "TimeoutException", status_code |-> 0]

ConnectError == [exc |-> "ConnectError", status_code |-> 0]

Response(status_code) == [exc |-> "", status_code |-> status_code]

\* httpx.TimeoutException and httpx.ConnectError are both httpx.RequestError.
IsRequestError(outcome) == outcome.exc \in {"TimeoutException", "ConnectError"}

TRANSIENT_STATUS_CODES == {408, 409, 425, 429, 500, 502, 503, 504}

OpenClawGatewayConfig(retries) == [max_retries |-> retries]

normalize_error(code, retriable, attempts, http_status) ==
  [status |-> "error", code |-> code, retriable |-> retriable,
   attempts |-> attempts, http_status |-> http_status]

\* The iteration of the loop of call_agent numbered attempt, and the ones
\* after it; outcomes[attempt] is what its client.post meets.
RECURSIVE Attempt(_, _, _)
Attempt(config, outcomes, attempt) ==
  IF attempt > config.max_retries + 1
    THEN normalize_error("openclaw_unknown_error", TRUE, attempt - 1, 0)
  ELSE LET response == outcomes[attempt] IN
    IF response.exc = "TimeoutException"
      THEN IF attempt <= config.max_retries
             THEN Attempt(config, outcomes, attempt + 1)
             ELSE normalize_error("openclaw_timeout", TRUE, attempt, 0)
    ELSE IF IsRequestError(response)
      THEN IF attempt <= config.max_retries
             THEN Attempt(config, outcomes, attempt + 1)
             ELSE normalize_error("openclaw_unavailable", TRUE, attempt, 0)
    ELSE IF response.exc # ""
      THEN [status |-> "raised", code |-> response.exc, retriable |-> FALSE,
            attempts |-> attempt, http_status |-> 0]
    ELSE IF response.status_code \in TRANSIENT_STATUS_CODES
      THEN IF attempt <= config.max_retries
             THEN Attempt(config, outcomes, attempt + 1)
             ELSE normalize_error("openclaw_transient_error", TRUE, attempt,
                                  response.status_code)
    ELSE IF 400 <= response.status_code /\ response.status_code < 500
      THEN normalize_error("openclaw_client_error", FALSE, attempt,
                           response.status_code)
    ELSE IF response.status_code >= 500
      THEN normalize_error("openclaw_server_error", TRUE, attempt,
                           response.status_code)
    ELSE [status |-> "ok", code |-> "", retriable |-> FALSE,
          attempts |-> attempt, http_status |-> 0]

\* A client that gives up after the first attempt.
call_agent_once(config, outcomes) ==
  Attempt([config EXCEPT !.max_retries = 0], outcomes, 1)

call_agent(config, outcomes) ==
  Attempt(config, outcomes, 1)

\* ------------------------------------ the gateway client called on its own
Outcomes ==
  {TimeoutException, ConnectError}
    \cup {Response(s) : s \in {200, 302, 404, 429, 501, 503}}

\* One call under each configuration of at most MaxRetries retries, against
\* every behaviour of the gateway over the attempts the call may make.
CallAgent ==
  /\ calls = << >>
  /\ \E retries \in 0..MaxRetries :
       \E outcomes \in [1..(retries + 1) -> Outcomes] :
         calls' = << Call("call_agent",
                          [max_retries |-> retries, outcomes |-> outcomes],
                          call_agent(OpenClawGatewayConfig(retries), outcomes)) >>
  /\ UNCHANGED <<now, slack_signing_secret, seen_events, rate_limiter, audit,
                 sessions, posts, dlv, task>>

NextOpenClaw == CallAgent

SpecOpenClaw == InitLimiter /\ [][NextOpenClaw]_vars

\* ------------------------------------------------- payment status lookup
\* The vendors and the bills the accounting system may hold; a company name
\* is a sequence of words.
Vendor(id, companyName) == [id |-> id, companyName |-> companyName]

Vendors ==
  {Vendor(1, <<"Google", "LLC">>), Vendor(2, <<"Google", "Cloud">>),
   Vendor(3, <<"Google", "Pay">>), Vendor(4, <<"Acme", "Cloud">>)}

Bill(tranId, entity, tranDate, billStatus) ==
  [tranId |-> tranId, entity |-> entity, tranDate |-> tranDate,
   status |-> billStatus]

Entity(id, refName) == [id |-> id, refName |-> refName]

Bills ==
  {Bill("INV-1", Entity(1, <<"Google", "LLC">>), 1, "paid"),
   Bill("INV-2", Entity(1, <<"Google", "LLC">>), 2, "open"),
   Bill("INV-3", Entity(4, <<"Acme", "Cloud">>), 1, "overdue")}

\* The vendors of a store as the list the search returns them in.
RECURSIVE VendorList(_)
VendorList(store) ==
  IF store = {} THEN << >>
  ELSE LET first == CHOOSE v \in store : \A w \in store : v.id <= w.id IN
         <<first>> \o VendorList(store \ {first})

\* companyName LIKE '%name%'
Like(companyName, name) == \E i \in 1..Len(companyName) : companyName[i] = name

get_vendor_by_name(store, name) ==
  VendorList({v \in store : Like(v.companyName, name)})

NoBill == Bill("", Entity(0, << >>), 0, "")

NoResponse ==
  [vendor_name |-> << >>, invoice_number |-> "", payment_status |-> ""]

normalize_bill(bill) ==
  [vendor_name |-> bill.entity.refName,
   invoice_number |-> bill.tranId,
   payment_status |-> CASE bill.status = "paid" -> "paid"
                        [] bill.status = "open" -> "pending_approval"
                        [] bill.status = "overdue" -> "processing"
                        [] OTHER -> "not_found"]

get_vendor_bills_by_vendor_id(store, vendor_id) ==
  {b \in Bills : b.entity.id = vendor_id /\ \E v \in store : v.id = vendor_id}

get_vendor_bill(store, invoice_number) ==
  LET items == {b \in Bills : b.tranId = invoice_number
                                /\ \E v \in store : v.id = b.entity.id} IN
    IF items = {} THEN NoBill ELSE CHOOSE b \in items : TRUE

Result(status, message, match_count, bill) ==
  [status |-> status, message |-> message, match_count |-> match_count,
   bill |-> bill]

\* A reply to several matches that names the first of them.
Disambiguation_discloses(vendor_name, vendors) ==
  Result("disambiguation_needed",
         <<"Multiple vendors match", vendor_name>> \o vendors[1].companyName,
         Len(vendors), NoResponse)

\* The reply to several matches: the queried name and their number.
Disambiguation(vendor_name, vendors) ==
  Result("disambiguation_needed", <<"Multiple vendors match", vendor_name>>,
         Len(vendors), NoResponse)

get_payment_status(store, invoice_number, vendor_name) ==
  IF invoice_number # ""
    THEN LET result == get_vendor_bill(store, invoice_number) IN
           IF result = NoBill
             THEN Result("not_found", <<"No invoice found with number", invoice_number>>,
                         0, NoResponse)
             ELSE Result("", << >>, 0, normalize_bill(result))
  ELSE IF vendor_name # ""
    THEN LET vendors == get_vendor_by_name(store, vendor_name) IN
           IF vendors = << >>
             THEN Result("not_found", <<"No vendor found matching", vendor_name>>,
                         0, NoResponse)
           ELSE IF Len(vendors) > 1
             THEN Disambiguation(vendor_name, vendors)
           ELSE LET vendor == vendors[1]
                    bills  == get_vendor_bills_by_vendor_id(store, vendor.id) IN
                  IF bills = {}
                    THEN Result("no_bills",
                                <<"No outstanding invoices found for">>
                                  \o vendor.companyName,
                                0, NoResponse)
                    ELSE LET latest == CHOOSE b \in bills :
                                         \A c \in bills : c.tranDate <= b.tranDate IN
                           Result("", << >>, 0, normalize_bill(latest))
  ELSE Result("error", <<"Please provide an invoice number or vendor name.">>,
              0, NoResponse)

\* ------------------------------------------ the lookup called on its own
\* The arguments of the calls: an invoice number, a vendor name, or neither.
Lookups ==
  {<<"", "Google">>, <<"", "Cloud">>, <<"", "Acme">>, <<"", "Zed">>,
   <<"INV-2", "">>, <<"INV-9", "Google">>, <<"", "">>}

\* At most MaxLookups calls, each against a store of its own.
CallGetPaymentStatus ==
  /\ Len(calls) < MaxLookups
  /\ \E store \in SUBSET Vendors, q \in Lookups :
       calls' = Append(calls,
                       Call("get_payment_status",
                            [store |-> store, invoice_number |-> q[1],
                             vendor_name |-> q[2]],
                            get_payment_status(store, q[1], q[2])))
  /\ UNCHANGED <<now, slack_signing_secret, seen_events, rate_limiter, audit,
                 sessions, posts, dlv, task>>

NextTools == CallGetPaymentStatus

SpecTools == InitLimiter /\ [][NextTools]_vars

\* ====================================================================
\* Properties
\* ====================================================================
Ended(d) == task[d].pc \in {"done", "raised"}

\* An attempt that failed inside the try block, after its audit row was written.
FailedAttempt(d) == Ended(d) /\ task[d].exc # ""

\* C1: handle_event runs at most twice for an event: the first attempt and
\* one retry; a failed retry schedules nothing further.
C1_AtMostTwoAttempts == \A d \in Deliveries : task[d].attempt <= 2

\* C2: an attempt that fails after its audit row was written posts the
\* apology to the thread, sets the row to error with the exception detail,
\* escalates once to operations and schedules a retry.
C2_FailureHandled ==
  \A d \in Deliveries :
    FailedAttempt(d) =>
      /\ Message(Event(d).channel, ThreadTs(Event(d)), "apology", ApologyText, d) \in posts
      /\ audit[task[d].cid].response_status = "error"
      /\ audit[task[d].cid].error_message = task[d].exc
      /\ task[d].escalated # ""
      /\ task[d].timer >= 0

\* C3: every audit row an attempt created has had exactly one terminal
\* update, ok or error, once that attempt has returned or raised.
C3_OneTerminalUpdate ==
  \A d \in Deliveries : \A n \in 1..MaxAttempts :
    (audit[<<d, n>>].present /\ (n < task[d].attempt \/ Ended(d))) =>
      /\ audit[<<d, n>>].updates = 1
      /\ audit[<<d, n>>].response_status \in {"ok", "error"}

\* A delivery that was authenticated and carries an event object.
Accepted(d) ==
  /\ dlv[d].pc = "done"
  /\ dlv[d].status = 200
  /\ dlv[d].req.payload.type # "url_verification"
  /\ dlv[d].req.payload.event.present

EventId(d) == dlv[d].req.payload.event_id

SamePair(d1, d2) ==
  /\ d1 # d2
  /\ Accepted(d1) /\ Accepted(d2)
  /\ EventId(d1) = EventId(d2)
  /\ Abs(dlv[d1].t - dlv[d2].t) <= DEDUP_WINDOW

Replies(D) == {m \in posts : m.kind = "reply" /\ m.d \in D}

\* C4: of two deliveries with one event_id within the dedup window at most
\* one is dispatched to handle_event, and one delivery of that event_id
\* within the window of both was; the one not dispatched is acknowledged
\* with 200 and not processed; at most one reply is posted, and exactly one
\* once the processing has succeeded.
C4_OneDispatch ==
  \A d1, d2 \in Deliveries :
    (SamePair(d1, d2) /\ Actionable(Event(d1)) /\ Actionable(Event(d2))) =>
      /\ ~(dlv[d1].dispatch /\ dlv[d2].dispatch)
      /\ \E e \in Deliveries :
           /\ Accepted(e) /\ EventId(e) = EventId(d1) /\ dlv[e].dispatch
           /\ Abs(dlv[e].t - dlv[d1].t) <= DEDUP_WINDOW
           /\ Abs(dlv[e].t - dlv[d2].t) <= DEDUP_WINDOW
      /\ ~dlv[d2].dispatch => (task[d2].pc = "none" /\ dlv[d2].body = OkBody)
      /\ Cardinality(Replies({d1, d2})) <= 1
      /\ (task[d1].pc = "done" /\ task[d1].exc = "" /\ task[d1].cid # <<0, 0>>)
           => Cardinality(Replies({d1, d2})) = 1

C4_Witness ==
  \E d1, d2 \in Deliveries :
    /\ SamePair(d1, d2)
    /\ dlv[d1].dispatch /\ ~dlv[d2].dispatch
    /\ task[d1].pc = "done" /\ task[d1].attempt = 1
    /\ Cardinality(Replies({d1, d2})) = 1

\* The calls of is_duplicate made so far.
DupCalls == {i \in 1..Len(calls) : calls[i].fn = "is_duplicate"}

\* C5: is_duplicate(id) returns true exactly when an earlier call for the
\* same id returned false no more than the dedup window ago: the first call
\* returns false, every further call within the window of it returns true,
\* the first call after the window returns false and starts a new window,
\* and calls for other ids play no part.
C5_DuplicateWithinWindow ==
  \A i \in DupCalls :
    calls[i].ret <=>
      \E j \in DupCalls :
        /\ j < i
        /\ calls[j].arg = calls[i].arg
        /\ ~calls[j].ret
        /\ calls[i].t - calls[j].t <= DEDUP_WINDOW

C5_Witness ==
  \E i, j, k \in DupCalls :
    /\ i < j /\ j < k
    /\ calls[i].arg = calls[j].arg /\ calls[j].arg = calls[k].arg
    /\ ~calls[i].ret /\ calls[j].ret /\ ~calls[k].ret
    /\ calls[j].t - calls[i].t = DEDUP_WINDOW
    /\ calls[k].t - calls[i].t = DEDUP_WINDOW + 1
    /\ seen_events[calls[k].arg] = calls[k].t

\* C6: the time recorded for an id is always the time of a call that
\* returned false, and of the latest such call: a call that returns true
\* never moves it, so duplicates do not extend the window.
C6_FirstSightKept ==
  \A id \in EventIds :
    seen_events[id] >= 0 =>
      /\ \E i \in DupCalls :
           calls[i].arg = id /\ ~calls[i].ret /\ calls[i].t = seen_events[id]
      /\ \A i \in DupCalls :
           (calls[i].arg = id /\ ~calls[i].ret) => calls[i].t <= seen_events[id]

C6_Witness ==
  \E i, j \in DupCalls :
    /\ i < j
    /\ calls[i].arg = calls[j].arg
    /\ ~calls[i].ret /\ calls[j].ret
    /\ calls[j].t > calls[i].t
    /\ seen_events[calls[i].arg] = calls[i].t

\* The deliveries for which slack_events called is_duplicate.
Checked(d) == dlv[d].pc = "done" /\ dlv[d].dup # "none"

\* C7: among the deliveries of one event_id handled within the dedup
\* window, whatever their interleaving, is_duplicate returns false for
\* exactly one and true for the others, and the first sight stays recorded.
C7_OneFirstSight ==
  /\ \A d1, d2 \in Deliveries :
       (d1 # d2 /\ Checked(d1) /\ Checked(d2) /\ EventId(d1) = EventId(d2)
          /\ dlv[d1].dup = "false" /\ dlv[d2].dup = "false")
         => Abs(dlv[d1].t - dlv[d2].t) > DEDUP_WINDOW
  /\ \A d \in Deliveries :
       (Checked(d) /\ dlv[d].dup = "true") =>
         \E e \in Deliveries \ {d} :
           /\ Checked(e) /\ EventId(e) = EventId(d) /\ dlv[e].dup = "false"
           /\ dlv[d].t - dlv[e].t >= 0
           /\ dlv[d].t - dlv[e].t <= DEDUP_WINDOW
  /\ \A d \in Deliveries :
       (Checked(d) /\ dlv[d].dup = "false" /\ now - dlv[d].t <= DEDUP_WINDOW)
         => seen_events[EventId(d)] = dlv[d].t

C7_Witness ==
  \E d1, d2 \in Deliveries :
    /\ d1 < d2
    /\ Checked(d1) /\ Checked(d2) /\ EventId(d1) = EventId(d2)
    /\ dlv[d1].dup = "true" /\ dlv[d2].dup = "false"
    /\ dlv[d1].t = dlv[d2].t

\* The signature check of delivery d fails at time t.
SignatureFails(d, t) ==
  ~verify_slack_signature(slack_signing_secret, dlv[d].req.timestamp,
                          dlv[d].req.payload, dlv[d].req.signature, t)

Unauthenticated(d, t) ==
  /\ slack_signing_secret # ""
  /\ dlv[d].req.payload.type # "url_verification"
  /\ SignatureFails(d, t)

C8_RejectStep ==
  \A d \in Deliveries :
    (dlv[d].pc = "recv" /\ dlv'[d].pc = "done" /\ Unauthenticated(d, now)) =>
      /\ dlv'[d].status = 403
      /\ seen_events' = seen_events
      /\ task' = task

C8_RejectedNotCounted ==
  \A d \in Deliveries :
    (Checked(d) /\ dlv[d].dup = "true") =>
      \E e \in Deliveries \ {d} :
        /\ Checked(e) /\ EventId(e) = EventId(d) /\ dlv[e].dup = "false"
        /\ ~Unauthenticated(e, dlv[e].t)

VerifyCalls == {i \in 1..Len(calls) : calls[i].fn = "verify"}

\* C9: verify returns true exactly when the secret and the signature are
\* not empty, the timestamp parses as a number at most 300 seconds from
\* now, and the signature is v0= and the HMAC under the secret of
\* v0:{timestamp}:{body}.
C9_VerifyIff ==
  \A i \in VerifyCalls :
    LET a == calls[i].arg IN
    calls[i].ret <=>
      /\ a.secret # ""
      /\ a.signature # NoSignature
      /\ a.timestamp.kind = "num"
      /\ Abs(calls[i].t - a.timestamp.val) <= REPLAY_WINDOW
      /\ a.signature = Sign(a.secret, a.timestamp, a.body)

\* C10: a url_verification payload is answered with its challenge whatever
\* the signature headers and the configured secret, records nothing in the
\* dedup map and dispatches no task.
C10_HandshakeBypass ==
  [][\A d \in Deliveries :
       (dlv[d].pc = "recv" /\ dlv'[d].pc = "done"
          /\ dlv[d].req.payload.type = "url_verification") =>
         /\ dlv'[d].status = 200
         /\ dlv'[d].body = [kind |-> "challenge",
                            challenge |-> dlv[d].req.payload.challenge]
         /\ seen_events' = seen_events
         /\ task' = task]_vars

C10_Witness ==
  \E d \in Deliveries :
    /\ dlv[d].pc = "done"
    /\ dlv[d].req.payload.type = "url_verification"
    /\ slack_signing_secret # ""
    /\ SignatureFails(d, dlv[d].t)
    /\ dlv[d].status = 200
    /\ dlv[d].body.challenge = "xyz"

\* ------------------------------------------------------- the rate limiter
AllowedCalls == {i \in 1..Len(calls) : calls[i].fn = "is_allowed"}
RemainingCalls == {i \in 1..Len(calls) : calls[i].fn = "remaining"}

\* Call j admitted a request of the user.
Admitted(user_id, j) ==
  calls[j].fn = "is_allowed" /\ calls[j].arg = user_id /\ calls[j].ret

\* The admitted requests of the user of call i that are less than age
\* seconds old when call i is made.
AdmittedBefore(i, age) ==
  {j \in 1..(i - 1) : Admitted(calls[i].arg, j) /\ calls[i].t - calls[j].t < age}

\* C11: the recorded timestamps of a user inside the trailing window
\* (now - W, now] never number more than N, and is_allowed returns true
\* exactly when fewer than N admitted requests of that user lie in that
\* window: N calls in quick succession are admitted and the next is not.
C11_LimitKept ==
  /\ \A u \in Users :
       Len(Recent(Requests(rate_limiter, u), now - rate_limiter.window))
         <= rate_limiter.max
  /\ \A i \in AllowedCalls :
       calls[i].ret <=>
         Cardinality(AdmittedBefore(i, rate_limiter.window)) < rate_limiter.max

C11_Witness ==
  \E i \in AllowedCalls :
    /\ ~calls[i].ret
    /\ Cardinality(AdmittedBefore(i, 1)) = rate_limiter.max
    /\ Len(Requests(rate_limiter, calls[i].arg)) = rate_limiter.max

\* C12: a rejected call records nothing: every recorded timestamp is the
\* time of an admitted call, and a call is admitted whenever fewer than N
\* admitted requests of the user are at most W seconds old, however many
\* calls were rejected in between.
C12_RejectedNotRecorded ==
  /\ \A u \in DOMAIN rate_limiter.requests :
       \A k \in 1..Len(rate_limiter.requests[u]) :
         Cardinality({m \in 1..Len(rate_limiter.requests[u]) :
                        rate_limiter.requests[u][m] = rate_limiter.requests[u][k]})
           = Cardinality({j \in 1..Len(calls) :
                        Admitted(u, j) /\ calls[j].t = rate_limiter.requests[u][k]})
  /\ \A i \in AllowedCalls :
       Cardinality(AdmittedBefore(i, rate_limiter.window + 1)) < rate_limiter.max
         => calls[i].ret

C12_Witness ==
  \E i, j \in AllowedCalls :
    /\ i < j
    /\ calls[i].arg = calls[j].arg
    /\ ~calls[i].ret /\ calls[j].ret
    /\ calls[j].t - calls[i].t < rate_limiter.window
    /\ Cardinality(AdmittedBefore(i, rate_limiter.window)) = rate_limiter.max
    /\ AdmittedBefore(j, rate_limiter.window + 1) = {}
    /\ Len(Requests(rate_limiter, calls[j].arg)) = 1

\* C13: a call for one user leaves every other user as it was: the key and
\* the recorded timestamps of the other user, and what is_allowed and
\* remaining would answer for it.
C13_UsersIndependent ==
  [][\A v \in Users :
       (Len(calls') = Len(calls) + 1 /\ calls'[Len(calls')].arg # v) =>
         /\ (v \in DOMAIN rate_limiter'.requests) = (v \in DOMAIN rate_limiter.requests)
         /\ Requests(rate_limiter', v) = Requests(rate_limiter, v)
         /\ is_allowed(rate_limiter', v, now').ret = is_allowed(rate_limiter, v, now).ret
         /\ remaining(rate_limiter', v, now').ret = remaining(rate_limiter, v, now).ret]_vars

C13_Witness ==
  \E i, j \in AllowedCalls :
    /\ i < j
    /\ calls[i].arg # calls[j].arg
    /\ calls[i].t = calls[j].t
    /\ ~calls[i].ret /\ calls[j].ret
    /\ remaining(rate_limiter, calls[i].arg, now).ret = 0
    /\ remaining(rate_limiter, calls[j].arg, now).ret = rate_limiter.max - 1

\* The limiter that the is_allowed calls among the first i calls leave.
RECURSIVE Replay(_)
Replay(i) ==
  IF i = 0 THEN TestLimiter
  ELSE IF calls[i].fn = "is_allowed"
    THEN is_allowed(Replay(i - 1), calls[i].arg, calls[i].t).rl
    ELSE Replay(i - 1)

\* C14: remaining returns max(0, max - the admitted requests of the user in
\* the window) and changes nothing: the limiter is at every moment the one
\* its is_allowed calls alone leave, for known and unknown users.
C14_RemainingPure ==
  /\ \A i \in RemainingCalls :
       LET left == rate_limiter.max - Cardinality(AdmittedBefore(i, rate_limiter.window))
       IN calls[i].ret = IF left > 0 THEN left ELSE 0
  /\ \A i \in AllowedCalls :
       calls[i].ret = is_allowed(Replay(i - 1), calls[i].arg, calls[i].t).ret
  /\ rate_limiter = Replay(Len(calls))

\* ------------------------------------------------------ session resolution
\* The task of delivery d holds the session it resolved.
Resolved(d) == task[d].session # NoSession

\* C15: two events of one channel with one thread anchor (thread_ts, or the
\* event's own ts without one) resolve to the same session whichever users
\* sent them, and two events of one channel with different anchors resolve
\* to different sessions.
C15_SessionByThread ==
  \A d1, d2 \in Deliveries :
    (Resolved(d1) /\ Resolved(d2) /\ Event(d1).channel = Event(d2).channel) =>
      (ThreadTs(Event(d1)) = ThreadTs(Event(d2))) = (task[d1].session = task[d2].session)

\* The tasks that resolved session_id, and those of them whose create made
\* a session.
Resolvers(session_id) ==
  {d \in Deliveries : Resolved(d) /\ SessionId(Event(d)) = session_id}
Creators(session_id) ==
  {d \in Resolvers(session_id) : task[d].session.obj = <<d, task[d].attempt>>}

\* C16: of the tasks that resolve one session key, concurrently or not, at
\* most one creates a session, and all of them hold the one session that
\* the store has under that key.
C16_OneSessionPerKey ==
  \A d \in Deliveries :
    Resolved(d) =>
      LET session_id == SessionId(Event(d)) IN
        /\ Cardinality(Creators(session_id)) <= 1
        /\ \A e \in Resolvers(session_id) : task[e].session = task[d].session
        /\ task[d].session \in sessions

\* ------------------------------------------------- the endpoint's answers
\* A delivery that passed authentication and the dedup check.
PastDedup(d) == Accepted(d) /\ dlv[d].dup = "false"

\* The messages that the task of delivery d posted.
PostsOf(d) == {m \in posts : m.d = d}

\* C17: past authentication and dedup, handle_event is dispatched exactly
\* for an app_mention (in any conversation) and for a message with
\* channel_type im that carries neither bot_id nor subtype; every other
\* event is acknowledged with 200 {ok} and nothing is posted for it.
C17_DispatchIff ==
  \A d \in Deliveries :
    PastDedup(d) =>
      LET event == Event(d) IN
        /\ dlv[d].dispatch <=>
             \/ event.type = "app_mention"
             \/ /\ event.type = "message" /\ event.channel_type = "im"
                /\ event.bot_id = "" /\ event.subtype = ""
        /\ dlv[d].status = 200 /\ dlv[d].body = OkBody
        /\ ~dlv[d].dispatch => (task[d].pc = "none" /\ PostsOf(d) = {})

C17_Witness ==
  \E d1, d2 \in Deliveries :
    /\ PastDedup(d1) /\ PastDedup(d2)
    /\ Event(d1).type = "message" /\ Event(d1).channel_type = "im"
    /\ Event(d1).bot_id # "" /\ ~dlv[d1].dispatch
    /\ Event(d2).type = "app_mention" /\ Event(d2).channel_type = "im"
    /\ dlv[d2].dispatch /\ task[d2].pc = "done"
    /\ \E m \in PostsOf(d2) : m.kind = "reply"

\* C18: an authenticated delivery whose payload has no event object or no
\* event_id is acknowledged with 200 {ok} and nothing more happens: no task
\* is dispatched for it.
C18_MissingIsSwallowed ==
  \A d \in Deliveries :
    ( /\ dlv[d].pc = "done"
      /\ dlv[d].req.payload.type = "event_callback"
      /\ dlv[d].status # 403
      /\ (~dlv[d].req.payload.event.present \/ dlv[d].req.payload.event_id = "") )
    => /\ dlv[d].status = 200 /\ dlv[d].body = OkBody
       /\ ~dlv[d].dispatch
       /\ task[d].pc = "none"

\* C19: every delivery is answered with 200 {ok}, with 200 and the
\* challenge, or with 403; malformed and empty deliveries too.
C19_ResponseKinds ==
  \A d \in Deliveries :
    dlv[d].pc = "done" =>
      \/ dlv[d].status = 200 /\ dlv[d].body = OkBody
      \/ dlv[d].status = 200 /\ dlv[d].body.kind = "challenge"
      \/ dlv[d].status = 403

\* The task of delivery d is running and the endpoint has answered.
Acknowledged(d) ==
  /\ dlv[d].pc = "done"
  /\ dlv[d].status = 200
  /\ dlv[d].body = OkBody

C20_AckBeforeTask == \A d \in Deliveries : task[d].pc # "none" => Acknowledged(d)

C20_ResponseFinal ==
  \A d \in Deliveries : dlv[d].pc = "done" => dlv'[d] = dlv[d]

\* C20: the acknowledgment of an actionable event does not wait for
\* handle_event: whenever the task of a delivery exists, also while the
\* agent runner has not returned, the 200 {ok} is already given, and no
\* step of a task, one that raises included, changes a response given.
C20_AckNotBlocked == []C20_AckBeforeTask /\ [][C20_ResponseFinal]_vars

C20_Witness ==
  \E d1, d2 \in Deliveries :
    /\ d1 # d2
    /\ task[d1].pc = "raised" /\ Acknowledged(d1)
    /\ task[d2].pc = "run" /\ Acknowledged(d2)

\* ------------------------------------------- the early exits of handle_event
\* The messages that the current attempt of the task of delivery d posted.
PostsOfAttempt(d) == {m \in posts : m.d = d /\ m.attempt = task[d].attempt}

CooldownMessage(d) ==
  Message(Event(d).channel, ThreadTs(Event(d)), "cooldown", CooldownText, d)

\* C21: an attempt that the rate limiter blocked posts nothing but the
\* cooldown message, to the conversation and thread of the event, and has
\* posted it when it returns; it writes no audit row, resolves no session
\* and runs no agent, escalates nothing and schedules no retry.
C21_BlockedStops ==
  \A d \in Deliveries :
    task[d].limited =>
      /\ task[d].pc \in {"post_cooldown", "done", "raised"}
      /\ PostsOfAttempt(d) \subseteq {CooldownMessage(d)}
      /\ task[d].pc = "done" => CooldownMessage(d) \in posts
      /\ ~audit[<<d, task[d].attempt>>].present
      /\ task[d].cid = <<0, 0>>
      /\ task[d].session = NoSession /\ task[d].text = ""
      /\ task[d].escalated = "" /\ task[d].timer = -1

C21_Witness ==
  \E d \in Deliveries :
    /\ task[d].limited /\ task[d].pc = "done"
    /\ Event(d).user = "U2"
    /\ Len(Requests(rate_limiter, "U2")) = max_requests
    /\ CooldownMessage(d) \in posts

\* The event of delivery d has no text left once the mentions are stripped.
EmptyQuery(d) == dlv[d].dispatch /\ strip_bot_mention(Event(d).text) = NoText

C22_EmptyStep ==
  \A d \in Deliveries :
    (EmptyQuery(d) /\ task'[d] # task[d]) =>
      /\ task[d].pc = "start" /\ task'[d].pc = "done"
      /\ UNCHANGED <<posts, audit, rate_limiter, sessions>>

C22_EmptyLeavesNothing ==
  \A d \in Deliveries :
    EmptyQuery(d) =>
      /\ task[d].pc \in {"start", "done"}
      /\ PostsOf(d) = {}
      /\ \A n \in 1..MaxAttempts : ~audit[<<d, n>>].present
      /\ task[d].session = NoSession /\ task[d].text = ""
      /\ task[d].timer = -1

\* C22: handle_event of an event whose text is empty after mention
\* stripping returns at once: its one step changes neither the posts, nor
\* the audit log, nor the rate limiter (no slot of the user is used), nor
\* the sessions, and the agent is never run for it.
C22_EmptyQueryNoEffect == []C22_EmptyLeavesNothing /\ [][C22_EmptyStep]_vars

C22_Witness ==
  \E d \in Deliveries :
    /\ EmptyQuery(d) /\ task[d].pc = "done"
    /\ Event(d).text = <<"M">>
    /\ Event(d).user \notin DOMAIN rate_limiter.requests

\* ---------------------------------------------------- what the user sees
Apologies(d) == {m \in posts : m.d = d /\ m.kind = "apology"}

\* C23: the thread of an event gets the apology at most once, from the
\* first failed attempt: a retry that fails posts nothing more to the
\* user's conversation.
C23_OneApology ==
  \A d \in Deliveries :
    /\ Cardinality(Apologies(d)) <= 1
    /\ \A m \in Apologies(d) : m.attempt = 1

\* The messages posted to the conversation of an event, and to operations.
UserPosts == {m \in posts : m.kind \in {"reply", "cooldown", "apology"}}
Escalations(d) == {m \in posts : m.d = d /\ m.kind = "escalation"}

\* C24: whatever the exception, the failed attempt posts to the
\* conversation of the event the one fixed apology text: the messages of
\* two failures differ in nothing but the attempt that posted them, and the
\* exception detail is found in the escalation and in the audit row only.
C24_ApologyFixed ==
  /\ \A m \in UserPosts :
       /\ m.channel = Event(m.d).channel /\ m.thread_ts = ThreadTs(Event(m.d))
       /\ m.detail \in {"answer", FallbackText, CooldownText, ApologyText}
       /\ m.kind = "apology" <=> m.detail = ApologyText
  /\ \A d \in Deliveries :
       /\ \A m \in Escalations(d) :
            /\ m.channel = slack_billing_ops_channel
            /\ m.detail[1] \in {"agent_error", "chat_error"}
       /\ (task[d].pc \in {"escalate", "done"} /\ task[d].exc # "") =>
            /\ Message(Event(d).channel, ThreadTs(Event(d)), "apology", ApologyText, d) \in posts
            /\ audit[task[d].cid].error_message = task[d].exc

C24_Witness ==
  \E d \in Deliveries :
    /\ audit[<<d, 1>>].error_message = "agent_error"
    /\ audit[<<d, 2>>].error_message = "chat_error"
    /\ \E m1, m2 \in Apologies(d) :
         m1.attempt = 1 /\ m2.attempt = 2 /\ m1.detail = m2.detail
    /\ \E e1, e2 \in Escalations(d) :
         e1.attempt = 1 /\ e2.attempt = 2 /\ e1.detail[1] # e2.detail[1]

\* ------------------------------------------------------ mention stripping
StripCalls == {i \in 1..Len(calls) : calls[i].fn = "strip_bot_mention"}

\* The text without its leading mention token and the whitespace after it.
WithoutLeadingMention(text) ==
  IF text # << >> /\ Head(text) = "M" THEN DropSpace(Tail(text)) ELSE text

\* C25: strip_bot_mention takes the mention token away only where it leads
\* the text, with the whitespace after it, and returns the rest trimmed and
\* otherwise unchanged.
C25_LeadingMentionOnly ==
  \A i \in StripCalls : calls[i].ret = Strip(WithoutLeadingMention(calls[i].arg))

\* ------------------------------------------------- the OpenClaw client
AgentCalls == {i \in 1..Len(calls) : calls[i].fn = "call_agent"}

\* An attempt that call_agent is to repeat: a timeout, a connection error or
\* a transient status.
Transient(outcome) ==
  outcome.exc # "" \/ outcome.status_code \in TRANSIENT_STATUS_CODES

Succeeds(outcome) ==
  outcome.exc = "" /\ outcome.status_code >= 200 /\ outcome.status_code < 300

\* The number of attempts that fail transiently before the first other one.
Failures(outcomes) ==
  CHOOSE k \in 0..Len(outcomes) :
    /\ \A i \in 1..k : Transient(outcomes[i])
    /\ k = Len(outcomes) \/ ~Transient(outcomes[k + 1])

\* C26: call_agent never raises and makes at most max_retries + 1 attempts;
\* it goes on after every transient failure, returns ok with attempts = k + 1
\* when the first k attempts fail transiently and the next succeeds, and once
\* the attempts are used up it returns a retriable error with
\* attempts = max_retries + 1, of code openclaw_unavailable when the last
\* attempt could not connect.
C26_RetriesBounded ==
  \A i \in AgentCalls :
    LET arg == calls[i].arg
        ret == calls[i].ret
        k   == Failures(arg.outcomes) IN
      /\ ret.status \in {"ok", "error"}
      /\ ret.attempts \in 1..(arg.max_retries + 1)
      /\ k <= arg.max_retries => ret.attempts = k + 1
      /\ (k <= arg.max_retries /\ Succeeds(arg.outcomes[k + 1])) =>
           ret.status = "ok"
      /\ k = arg.max_retries + 1 =>
           /\ ret.status = "error" /\ ret.retriable
           /\ ret.attempts = arg.max_retries + 1
           /\ (arg.outcomes[k] = ConnectError) = (ret.code = "openclaw_unavailable")
           /\ (arg.outcomes[k] = TimeoutException) = (ret.code = "openclaw_timeout")

C26_Witness ==
  \E i \in AgentCalls :
    /\ calls[i].arg.max_retries = 2
    /\ calls[i].arg.outcomes = <<ConnectError, Response(503), Response(200)>>
    /\ calls[i].ret.status = "ok" /\ calls[i].ret.attempts = 3

\* ------------------------------------------------ payment status lookup
\* The calls that look a vendor up by name.
NameLookups ==
  {i \in 1..Len(calls) : calls[i].fn = "get_payment_status"
                           /\ calls[i].arg.invoice_number = ""
                           /\ calls[i].arg.vendor_name # ""}

\* The vendors of the store of call i that the queried name matches.
Matched(i) ==
  {v \in calls[i].arg.store : Like(v.companyName, calls[i].arg.vendor_name)}

\* C27: a lookup by a name that matches more than one vendor returns
\* disambiguation_needed with the number of matches, and two such lookups of
\* the same name with the same number of matches return the same result,
\* whichever vendors matched.
C27_NoNameDisclosed ==
  \A i \in NameLookups :
    Cardinality(Matched(i)) > 1 =>
      /\ calls[i].ret.status = "disambiguation_needed"
      /\ calls[i].ret.match_count = Cardinality(Matched(i))
      /\ \A j \in NameLookups :
           (/\ calls[j].arg.vendor_name = calls[i].arg.vendor_name
            /\ Cardinality(Matched(j)) = Cardinality(Matched(i))) =>
             calls[j].ret = calls[i].ret

C27_Witness ==
  \E i, j \in NameLookups :
    /\ calls[i].arg.vendor_name = calls[j].arg.vendor_name
    /\ Cardinality(Matched(i)) = 2 /\ Cardinality(Matched(j)) = 2
    /\ Matched(i) # Matched(j)
    /\ calls[i].ret = calls[j].ret
    /\ calls[i].ret.status = "disambiguation_needed"

\* ------------------------------------------- the post and the audit row
RepliesOf(d, n) == {m \in posts : m.d = d /\ m.attempt = n /\ m.kind = "reply"}

ApologiesOf(d, n) == {m \in posts : m.d = d /\ m.attempt = n /\ m.kind = "apology"}

C29_EscalationSwallowed ==
  \A d \in Deliveries :
    task[d].escalated = "failed" =>
      /\ task[d].pc = "done"
      /\ audit[task[d].cid].response_status = "error"
      /\ audit[task[d].cid].updates = 1
      /\ {m \in Escalations(d) : m.attempt = task[d].attempt} = {}
      /\ task[d].timer >= 0 /\ task[d].timer <= now + RETRY_DELAY

C29_Witness ==
  \E d \in Deliveries :
    /\ task[d].escalated = "failed" /\ task[d].pc = "done"
    /\ task[d].timer = now + RETRY_DELAY
    /\ audit[task[d].cid].response_status = "error"

\* ------------------------------------------- the records of the attempts
\* Once a retry runs, the row of the first attempt is the error row it was.
C30_FirstRecordKept ==
  \A d \in Deliveries :
    task[d].attempt >= 2 =>
      /\ audit[<<d, 1>>].response_status = "error"
      /\ audit[<<d, 1>>].updates = 1

\* A retry that has ended has a row of its own with a terminal status.
C30_RetryRecordCompleted ==
  \A d \in Deliveries :
    (task[d].attempt >= 2 /\ Ended(d)) =>
      /\ audit[<<d, task[d].attempt>>].present
      /\ audit[<<d, task[d].attempt>>].response_status \in {"ok", "error"}

\* C30: a retry leaves the audit row of the failed first attempt as it was,
\* status error, and writes and completes a row of its own under a fresh
\* correlation id.
C30_RetryOwnRecord == C30_FirstRecordKept /\ C30_RetryRecordCompleted
====
